---- MODULE Spec2Model ----
(***************************************************************************)
(* Passkey relying-party server (src/server.js): the two challenge slots,  *)
(* the in-memory credential map and the four async route handlers.  Every  *)
(* handler is split at its single `await`: the part before it (argument    *)
(* evaluation, the early "No registered user" return) is one step and the  *)
(* continuation after the engine settles is another, so that handlers of   *)
(* different requests interleave exactly at the suspension points.         *)
(***************************************************************************)
EXTENDS Integers, FiniteSets, Sequences, TLC

\* ------------------------------------------------------------------ bounds
\* number of distinct challenges the engine's random generator hands out
MaxChallenges == 2
\* largest signature counter an authenticator reports
MaxCounter == 1

\* --------------------------------------------------------------- constants
Clients == {"A", "B"}

\* server.js:76 and :99, the origin both verification handlers expect.  The
\* deployment variants of the server differ only in this string (and in the
\* static documents): their handlers are the same code.
ExpectedOrigin == "https://guarded-fortress-75705-c422ef56e8e1.herokuapp.com"
Origins == {ExpectedOrigin, "https://evil.example"}

\* server.js:80 and :92, the only key of the credential map
DemoUser == "testuser"
\* server.js:40, the fixed user id attached to the registration options
DemoUserId == "1234"

Keys == {"k1", "k2"}
Challenges == 1..MaxChallenges
\* server.js:32-33, `null`
Null == 0

VARIABLES
  users,                      \* server.js:31  the credential Map
  currentRegisterChallenge,   \* server.js:32
  currentLoginChallenge,      \* server.js:33
  route,                      \* per client: the route of its current or latest request
  pc,                         \* per client: where the handler of its request is suspended
  call,                       \* per client: the arguments of the pending engine call
  response,                   \* per client: the response to its current or latest request
  sent,                       \* per client: how many times the handler of its request sent a response
  rng,                        \* the engine's random source: next unused challenge value
  lastAttested                \* history: authnrData of the latest accepted attestation

vars == <<users, currentRegisterChallenge, currentLoginChallenge, route, pc,
          call, response, sent, rng, lastAttested>>

\* ----------------------------------------------------------- request bodies
\* What a client can post to a verification endpoint.  `challenge` and
\* `origin` are the values inside clientDataJSON, `wellFormed` says whether
\* the payload parses and its signature is valid for `key`, `counter` is the
\* authenticator's signature counter.
WellFormedBodies ==
  [challenge : Challenges, origin : Origins, wellFormed : {TRUE},
   key : Keys, counter : 0..MaxCounter]
\* a payload the engine cannot parse or whose signature does not verify
Malformed ==
  [challenge |-> Null, origin |-> "", wellFormed |-> FALSE, key |-> "",
   counter |-> 0]
Bodies == WellFormedBodies \cup {Malformed}

\* Buffer.from(x).toString("base64"): an injective text encoding of the bytes
Base64(x) == <<"base64", x>>
FromBase64(t) == t[2]

\* ---------------------------------------------------------------- responses
NoResponse ==
  [code |-> 0, status |-> "", error |-> "", challenge |-> <<>>, user |-> <<>>]
\* res.json({ status: "ok" })
OkResponse ==
  [code |-> 200, status |-> "ok", error |-> "", challenge |-> <<>>, user |-> <<>>]
\* res.json(registrationOptions): challenge and user.id as base64 text
RegistrationOptions(ch) ==
  [code |-> 200, status |-> "", error |-> "", challenge |-> Base64(ch),
   user |-> Base64(DemoUserId)]
\* res.json(assertionOptions)
AssertionOptions(ch) ==
  [code |-> 200, status |-> "", error |-> "", challenge |-> Base64(ch),
   user |-> <<>>]
\* res.status(400).json({ status: "failed", error: ... })
FailedResponse(err) ==
  [code |-> 400, status |-> "failed", error |-> err, challenge |-> <<>>,
   user |-> <<>>]
\* res.status(500).json({ error: e.toString() })
ServerErrorResponse(err) ==
  [code |-> 500, status |-> "", error |-> err, challenge |-> <<>>, user |-> <<>>]

NoCall == [op |-> "none"]

\* ------------------------------------------------------------ the Map API
EmptyMap == [k \in {} |-> Null]
MapHas(m, k) == k \in DOMAIN m
MapSet(m, k, v) == [x \in (DOMAIN m) \cup {k} |-> IF x = k THEN v ELSE m[x]]

\* ------------------------------------------------------- the WebAuthn engine
\* The engine is a collaborator outside this repository; it is modelled by
\* its contract: an attestation or assertion is accepted exactly when the
\* payload is well formed and is bound to the expected challenge and origin
\* (and, for an assertion, is signed by the expected key with a counter that
\* did not roll back).  An absent (null) expected challenge is rejected.
AttestationError(body, expected) ==
  IF expected.challenge = Null THEN "Error: expected challenge missing"
  ELSE IF ~body.wellFormed THEN "Error: malformed attestation"
  ELSE IF body.challenge # expected.challenge THEN "Error: challenge mismatch"
  ELSE IF body.origin # expected.origin THEN "Error: origin mismatch"
  ELSE ""

\* attRes.authnrData of an accepted attestation
AuthnrData(body) ==
  [credentialPublicKey |-> body.key, counter |-> body.counter,
   userHandle |-> DemoUserId]

CounterOk(counter, prevCounter) ==
  (counter = 0 /\ prevCounter = 0) \/ counter > prevCounter

AssertionError(body, expected) ==
  IF expected.challenge = Null THEN "Error: expected challenge missing"
  ELSE IF ~body.wellFormed THEN "Error: malformed assertion"
  ELSE IF body.challenge # expected.challenge THEN "Error: challenge mismatch"
  ELSE IF body.origin # expected.origin THEN "Error: origin mismatch"
  ELSE IF body.key # expected.publicKey THEN "Error: signature validation failed"
  ELSE IF ~CounterOk(body.counter, expected.prevCounter)
    THEN "Error: counter rollback detected"
  ELSE ""

OptionsError == "Error: could not generate challenge"

\* ----------------------------------------------------------------- handlers
Init ==
  /\ users = EmptyMap
  /\ currentRegisterChallenge = Null
  /\ currentLoginChallenge = Null
  /\ route = [c \in Clients |-> "none"]
  /\ pc = [c \in Clients |-> "idle"]
  /\ call = [c \in Clients |-> NoCall]
  /\ response = [c \in Clients |-> NoResponse]
  /\ sent = [c \in Clients |-> 0]
  /\ rng = 1
  /\ lastAttested = <<>>

\* the challenge of the given flow that the client was handed by the
\* response it holds when it sends its next request (Null: none)
Held(c, url) ==
  IF route[c] = url /\ response[c].code = 200
  THEN FromBase64(response[c].challenge) ELSE Null

\* a request arrives and its handler runs up to its `await`
Suspend(c, url, at, args) ==
  /\ pc[c] = "idle"
  /\ route' = [route EXCEPT ![c] = url]
  /\ pc' = [pc EXCEPT ![c] = at]
  /\ call' = [call EXCEPT ![c] = args]
  /\ response' = [response EXCEPT ![c] = NoResponse]
  /\ sent' = [sent EXCEPT ![c] = 0]

\* the continuation of a suspended handler sends the response
Respond(c, at, r) ==
  /\ pc[c] = at
  /\ pc' = [pc EXCEPT ![c] = "idle"]
  /\ call' = [call EXCEPT ![c] = NoCall]
  /\ response' = [response EXCEPT ![c] = r]
  /\ sent' = [sent EXCEPT ![c] = @ + 1]
  /\ UNCHANGED route

\* GET /register-challenge up to `await fido.attestationOptions()`
RegisterChallengeCall(c) ==
  /\ Suspend(c, "/register-challenge", "attestationOptions",
             [op |-> "attestationOptions"])
  /\ UNCHANGED <<users, currentRegisterChallenge, currentLoginChallenge, rng>>

\* the slot is only filled when it is empty, a later issuance is not stored
RegisterChallengeReturn_KeepsFirst(c) ==
  /\ rng \in Challenges
  /\ currentRegisterChallenge' =
       IF currentRegisterChallenge = Null THEN rng ELSE currentRegisterChallenge
  /\ rng' = rng + 1
  /\ Respond(c, "attestationOptions", RegistrationOptions(rng))
  /\ UNCHANGED <<users, currentLoginChallenge>>

\* ... the engine resolved with fresh options: store the challenge, respond
RegisterChallengeReturn(c) ==
  /\ rng \in Challenges
  /\ currentRegisterChallenge' = rng
  /\ rng' = rng + 1
  /\ Respond(c, "attestationOptions", RegistrationOptions(currentRegisterChallenge'))
  /\ UNCHANGED <<users, currentLoginChallenge>>

\* ... the engine rejected: the catch block
RegisterChallengeThrow(c) ==
  /\ Respond(c, "attestationOptions", ServerErrorResponse(OptionsError))
  /\ UNCHANGED <<users, currentRegisterChallenge, currentLoginChallenge, rng>>

\* GET /login-challenge up to `await fido.assertionOptions()`
LoginChallengeCall(c) ==
  /\ Suspend(c, "/login-challenge", "assertionOptions",
             [op |-> "assertionOptions"])
  /\ UNCHANGED <<users, currentRegisterChallenge, currentLoginChallenge, rng>>

\* issuing a login challenge also resets the registration flow
LoginChallengeReturn_ResetsRegistration(c) ==
  /\ rng \in Challenges
  /\ currentLoginChallenge' = rng
  /\ currentRegisterChallenge' = Null
  /\ rng' = rng + 1
  /\ Respond(c, "assertionOptions", AssertionOptions(currentLoginChallenge'))
  /\ UNCHANGED <<users>>

\* ... the engine resolved with fresh options: store the challenge, respond
LoginChallengeReturn(c) ==
  /\ rng \in Challenges
  /\ currentLoginChallenge' = rng
  /\ rng' = rng + 1
  /\ Respond(c, "assertionOptions", AssertionOptions(currentLoginChallenge'))
  /\ UNCHANGED <<users, currentRegisterChallenge>>

\* the slot is reset before the engine is awaited and stays reset on failure
LoginChallengeThrow_SlotCleared(c) ==
  /\ currentLoginChallenge' = Null
  /\ Respond(c, "assertionOptions", ServerErrorResponse(OptionsError))
  /\ UNCHANGED <<users, currentRegisterChallenge, rng>>

\* ... the engine rejected: the catch block
LoginChallengeThrow(c) ==
  /\ Respond(c, "assertionOptions", ServerErrorResponse(OptionsError))
  /\ UNCHANGED <<users, currentRegisterChallenge, currentLoginChallenge, rng>>

\* the registration check reads the login flow's slot
AttestationExpectations_WrongSlot ==
  [challenge |-> currentLoginChallenge, origin |-> ExpectedOrigin,
   factor |-> "either"]

\* the expectations object built at server.js:74-78, read when the call is made
AttestationExpectations ==
  [challenge |-> currentRegisterChallenge, origin |-> ExpectedOrigin,
   factor |-> "either"]

\* POST /verify-register up to `await fido.attestationResult(...)`.  The
\* request body is immutable and only the engine looks at it, so it is drawn
\* when the engine settles; `held` records the registration challenge the
\* client was handed by the response it holds when it sends this request.
VerifyRegisterCall(c) ==
  /\ Suspend(c, "/verify-register", "attestationResult",
             [op |-> "attestationResult", expected |-> AttestationExpectations,
              held |-> Held(c, "/register-challenge")])
  /\ UNCHANGED <<users, currentRegisterChallenge, currentLoginChallenge, rng>>

\* a record is only stored when none exists yet
VerifyRegisterReturn_KeepsFirst(c, body) ==
  /\ pc[c] = "attestationResult"
  /\ AttestationError(body, call[c].expected) = ""
  /\ users' = IF MapHas(users, DemoUser) THEN users
              ELSE MapSet(users, DemoUser, AuthnrData(body))
  /\ Respond(c, "attestationResult", OkResponse)
  /\ UNCHANGED <<currentRegisterChallenge, currentLoginChallenge, rng>>

\* an accepted registration uses its challenge up
VerifyRegisterReturn_ConsumesChallenge(c, body) ==
  /\ pc[c] = "attestationResult"
  /\ AttestationError(body, call[c].expected) = ""
  /\ users' = MapSet(users, DemoUser, AuthnrData(body))
  /\ currentRegisterChallenge' = Null
  /\ Respond(c, "attestationResult", OkResponse)
  /\ UNCHANGED <<currentLoginChallenge, rng>>

\* the check is made against the challenge the payload itself carries
VerifyRegisterReturn_TrustsClientChallenge(c, body) ==
  /\ pc[c] = "attestationResult"
  /\ AttestationError(body, [call[c].expected EXCEPT !.challenge = body.challenge]) = ""
  /\ users' = MapSet(users, DemoUser, AuthnrData(body))
  /\ Respond(c, "attestationResult", OkResponse)
  /\ UNCHANGED <<currentRegisterChallenge, currentLoginChallenge, rng>>

\* the challenge is read from the slot when the engine settles, not when
\* the call is made
VerifyRegisterReturn_ReadsSlotLate(c, body) ==
  /\ pc[c] = "attestationResult"
  /\ AttestationError(body, [call[c].expected EXCEPT
                               !.challenge = currentRegisterChallenge]) = ""
  /\ users' = MapSet(users, DemoUser, AuthnrData(body))
  /\ Respond(c, "attestationResult", OkResponse)
  /\ UNCHANGED <<currentRegisterChallenge, currentLoginChallenge, rng>>

\* with no stored challenge the payload's own challenge is taken as expected
VerifyRegisterReturn_DefaultsChallenge(c, body) ==
  /\ pc[c] = "attestationResult"
  /\ AttestationError(body,
       IF call[c].expected.challenge = Null
       THEN [call[c].expected EXCEPT !.challenge = body.challenge]
       ELSE call[c].expected) = ""
  /\ users' = MapSet(users, DemoUser, AuthnrData(body))
  /\ Respond(c, "attestationResult", OkResponse)
  /\ UNCHANGED <<currentRegisterChallenge, currentLoginChallenge, rng>>

\* ... the engine accepted: users.set("testuser", attRes.authnrData)
VerifyRegisterReturn(c, body) ==
  /\ pc[c] = "attestationResult"
  /\ AttestationError(body, call[c].expected) = ""
  /\ users' = MapSet(users, DemoUser, AuthnrData(body))
  /\ Respond(c, "attestationResult", OkResponse)
  /\ UNCHANGED <<currentRegisterChallenge, currentLoginChallenge, rng>>

\* the catch block also drops the stored record
VerifyRegisterThrow_ClearsStore(c, body) ==
  /\ pc[c] = "attestationResult"
  /\ AttestationError(body, call[c].expected) # ""
  /\ users' = EmptyMap
  /\ Respond(c, "attestationResult",
             FailedResponse(AttestationError(body, call[c].expected)))
  /\ UNCHANGED <<currentRegisterChallenge, currentLoginChallenge, rng>>

\* ... the engine rejected: the catch block
VerifyRegisterThrow(c, body) ==
  /\ pc[c] = "attestationResult"
  /\ AttestationError(body, call[c].expected) # ""
  /\ Respond(c, "attestationResult",
             FailedResponse(AttestationError(body, call[c].expected)))
  /\ UNCHANGED <<users, currentRegisterChallenge, currentLoginChallenge, rng>>

\* the login check reads the registration flow's slot
AssertionExpectations_WrongSlot(userData) ==
  [challenge |-> currentRegisterChallenge, origin |-> ExpectedOrigin,
   factor |-> "either", publicKey |-> userData.credentialPublicKey,
   prevCounter |-> userData.counter, userHandle |-> userData.userHandle]

\* the expectations object built at server.js:97-104
AssertionExpectations(userData) ==
  [challenge |-> currentLoginChallenge, origin |-> ExpectedOrigin,
   factor |-> "either", publicKey |-> userData.credentialPublicKey,
   prevCounter |-> userData.counter, userHandle |-> userData.userHandle]

\* the early return is missing: the engine is called with an undefined record
VerifyLoginNotRegistered_NoEarlyReturn(c) ==
  /\ ~MapHas(users, DemoUser)
  /\ Suspend(c, "/verify-login", "assertionResult",
             [op |-> "assertionResult",
              expected |-> [challenge |-> currentLoginChallenge,
                            origin |-> ExpectedOrigin, factor |-> "either",
                            publicKey |-> Null, prevCounter |-> Null,
                            userHandle |-> Null],
              held |-> Held(c, "/login-challenge")])
  /\ UNCHANGED <<users, currentRegisterChallenge, currentLoginChallenge, rng>>

\* the 400 is sent without `return`: the handler goes on, reading a field of
\* the undefined record throws, and the catch block sends a second response
VerifyLoginNotRegistered_FallsThrough(c) ==
  /\ pc[c] = "idle"
  /\ ~MapHas(users, DemoUser)
  /\ route' = [route EXCEPT ![c] = "/verify-login"]
  /\ response' = [response EXCEPT ![c] = FailedResponse("No registered user")]
  /\ sent' = [sent EXCEPT ![c] = 2]
  /\ UNCHANGED <<pc, call>>
  /\ UNCHANGED <<users, currentRegisterChallenge, currentLoginChallenge, rng>>

\* POST /verify-login with no stored record: the early return
VerifyLoginNotRegistered(c) ==
  /\ pc[c] = "idle"
  /\ ~MapHas(users, DemoUser)
  /\ route' = [route EXCEPT ![c] = "/verify-login"]
  /\ response' = [response EXCEPT ![c] = FailedResponse("No registered user")]
  /\ sent' = [sent EXCEPT ![c] = 1]
  /\ UNCHANGED <<pc, call>>
  /\ UNCHANGED <<users, currentRegisterChallenge, currentLoginChallenge, rng>>

\* POST /verify-login up to `await fido.assertionResult(...)`
VerifyLoginCall(c) ==
  /\ MapHas(users, DemoUser)
  /\ Suspend(c, "/verify-login", "assertionResult",
             [op |-> "assertionResult",
              expected |-> AssertionExpectations(users[DemoUser]),
              held |-> Held(c, "/login-challenge")])
  /\ UNCHANGED <<users, currentRegisterChallenge, currentLoginChallenge, rng>>

\* the authenticator's new counter is written back to the stored record
VerifyLoginReturn_WritesCounter(c, body) ==
  /\ pc[c] = "assertionResult"
  /\ AssertionError(body, call[c].expected) = ""
  /\ users' = MapSet(users, DemoUser,
                     [users[DemoUser] EXCEPT !.counter = body.counter])
  /\ Respond(c, "assertionResult", OkResponse)
  /\ UNCHANGED <<currentRegisterChallenge, currentLoginChallenge, rng>>

\* the key and counter are read from the store when the engine settles
VerifyLoginReturn_ReadsRecordLate(c, body) ==
  /\ pc[c] = "assertionResult"
  /\ AssertionError(body, [call[c].expected EXCEPT
                             !.publicKey = users[DemoUser].credentialPublicKey,
                             !.prevCounter = users[DemoUser].counter]) = ""
  /\ Respond(c, "assertionResult", OkResponse)
  /\ UNCHANGED <<users, currentRegisterChallenge, currentLoginChallenge, rng>>

\* ... the engine accepted
VerifyLoginReturn(c, body) ==
  /\ pc[c] = "assertionResult"
  /\ AssertionError(body, call[c].expected) = ""
  /\ Respond(c, "assertionResult", OkResponse)
  /\ UNCHANGED <<users, currentRegisterChallenge, currentLoginChallenge, rng>>

\* a refused login removes the stored record
VerifyLoginThrow_Deregisters(c, body) ==
  /\ pc[c] = "assertionResult"
  /\ AssertionError(body, call[c].expected) # ""
  /\ users' = EmptyMap
  /\ Respond(c, "assertionResult",
             FailedResponse(AssertionError(body, call[c].expected)))
  /\ UNCHANGED <<currentRegisterChallenge, currentLoginChallenge, rng>>

\* ... the engine rejected: the catch block
VerifyLoginThrow(c, body) ==
  /\ pc[c] = "assertionResult"
  /\ AssertionError(body, call[c].expected) # ""
  /\ Respond(c, "assertionResult",
             FailedResponse(AssertionError(body, call[c].expected)))
  /\ UNCHANGED <<users, currentRegisterChallenge, currentLoginChallenge, rng>>

\* ------------------------------------------------ domain association document
\* server.js:118 and :125, the application identifier of this deployment
AppId == "AB33BBCCU7.guarded-fortress-75705-c422ef56e8e1.herokuapp.com"

\* the document of another deployment variant is served
AppleAppSiteAssociationDocument_OtherVariant ==
  [webcredentials |-> [apps |-> <<"AB33BBCCU7.passkey.local">>],
   applinks |-> [apps |-> <<>>, details |-> <<>>],
   activitycontinuation |-> [apps |-> <<"AB33BBCCU7.passkey.local">>]]

\* the object literal at server.js:116-127
AppleAppSiteAssociationDocument ==
  [webcredentials |-> [apps |-> <<AppId>>],
   applinks |-> [apps |-> <<>>, details |-> <<>>],
   activitycontinuation |-> [apps |-> <<AppId>>]]

\* JSON.stringify: the text of a value, from which the value can be parsed back
JsonStringify(v) == <<"json", v>>
JsonParse(t) == t[2]

\* res.type("application/json"); res.send(JSON.stringify(...))
AssociationResponse(doc) ==
  [code |-> 200, status |-> "", error |-> "", challenge |-> <<>>, user |-> <<>>,
   type |-> "application/json", text |-> JsonStringify(doc)]

\* GET /.well-known/apple-app-site-association: a synchronous handler
AppleAppSiteAssociation(c) ==
  /\ pc[c] = "idle"
  /\ route' = [route EXCEPT ![c] = "/.well-known/apple-app-site-association"]
  /\ response' = [response EXCEPT
                    ![c] = AssociationResponse(AppleAppSiteAssociationDocument)]
  /\ sent' = [sent EXCEPT ![c] = 1]
  /\ UNCHANGED <<pc, call>>
  /\ UNCHANGED <<users, currentRegisterChallenge, currentLoginChallenge, rng>>

Next ==
  \E c \in Clients :
    \/ RegisterChallengeCall(c) /\ UNCHANGED lastAttested
    \/ RegisterChallengeReturn(c) /\ UNCHANGED lastAttested
    \/ RegisterChallengeThrow(c) /\ UNCHANGED lastAttested
    \/ LoginChallengeCall(c) /\ UNCHANGED lastAttested
    \/ LoginChallengeReturn(c) /\ UNCHANGED lastAttested
    \/ LoginChallengeThrow(c) /\ UNCHANGED lastAttested
    \/ VerifyRegisterCall(c) /\ UNCHANGED lastAttested
    \/ \E body \in Bodies :
         VerifyRegisterReturn(c, body) /\ lastAttested' = <<AuthnrData(body)>>
    \/ \E body \in Bodies : VerifyRegisterThrow(c, body) /\ UNCHANGED lastAttested
    \/ VerifyLoginNotRegistered(c) /\ UNCHANGED lastAttested
    \/ VerifyLoginCall(c) /\ UNCHANGED lastAttested
    \/ \E body \in Bodies : VerifyLoginReturn(c, body) /\ UNCHANGED lastAttested
    \/ \E body \in Bodies : VerifyLoginThrow(c, body) /\ UNCHANGED lastAttested
    \/ AppleAppSiteAssociation(c) /\ UNCHANGED lastAttested

Spec == Init /\ [][Next]_vars

\* ---------------------------------------------------------------- liveness
\* Whether and how often a handler responds does not depend on which key or
\* counter a payload carries, so the fair specification draws the payloads of
\* one authenticator only: every path of every handler is still taken
\* (acceptance, each kind of rejection, the early return).
LiveBodies == {body \in Bodies : body.counter = 0 /\ body.key \in {"k1", ""}}

\* the engine settles client c's pending call: its promise resolves or
\* rejects and the handler's continuation runs
EngineSettles(c) ==
  \/ RegisterChallengeReturn(c) /\ UNCHANGED lastAttested
  \/ RegisterChallengeThrow(c) /\ UNCHANGED lastAttested
  \/ LoginChallengeReturn(c) /\ UNCHANGED lastAttested
  \/ LoginChallengeThrow(c) /\ UNCHANGED lastAttested
  \/ \E body \in LiveBodies :
       VerifyRegisterReturn(c, body) /\ lastAttested' = <<AuthnrData(body)>>
  \/ \E body \in LiveBodies : VerifyRegisterThrow(c, body) /\ UNCHANGED lastAttested
  \/ \E body \in LiveBodies : VerifyLoginReturn(c, body) /\ UNCHANGED lastAttested
  \/ \E body \in LiveBodies : VerifyLoginThrow(c, body) /\ UNCHANGED lastAttested

LiveNext ==
  \E c \in Clients :
    \/ RegisterChallengeCall(c) /\ UNCHANGED lastAttested
    \/ RegisterChallengeReturn(c) /\ UNCHANGED lastAttested
    \/ RegisterChallengeThrow(c) /\ UNCHANGED lastAttested
    \/ LoginChallengeCall(c) /\ UNCHANGED lastAttested
    \/ LoginChallengeReturn(c) /\ UNCHANGED lastAttested
    \/ LoginChallengeThrow(c) /\ UNCHANGED lastAttested
    \/ VerifyRegisterCall(c) /\ UNCHANGED lastAttested
    \/ \E body \in LiveBodies :
         VerifyRegisterReturn(c, body) /\ lastAttested' = <<AuthnrData(body)>>
    \/ \E body \in LiveBodies : VerifyRegisterThrow(c, body) /\ UNCHANGED lastAttested
    \/ VerifyLoginNotRegistered(c) /\ UNCHANGED lastAttested
    \/ VerifyLoginCall(c) /\ UNCHANGED lastAttested
    \/ \E body \in LiveBodies : VerifyLoginReturn(c, body) /\ UNCHANGED lastAttested
    \/ \E body \in LiveBodies : VerifyLoginThrow(c, body) /\ UNCHANGED lastAttested
    \/ AppleAppSiteAssociation(c) /\ UNCHANGED lastAttested

\* every pending engine call eventually settles
LiveSpec ==
  Init /\ [][LiveNext]_vars /\ \A c \in Clients : WF_vars(EngineSettles(c))

TypeOK ==
  /\ DOMAIN users \subseteq {DemoUser}
  /\ currentRegisterChallenge \in Challenges \cup {Null}
  /\ currentLoginChallenge \in Challenges \cup {Null}
  /\ sent \in [Clients -> 0..1]

\* ------------------------------------------------------------------ steps
\* client c's request for `url` arrives in this step
Starts(c, url) ==
  /\ pc[c] = "idle"
  /\ route'[c] = url
  /\ (pc'[c] # "idle" \/ response'[c] # response[c] \/ route[c] # url)

\* the handler of c's request, suspended at `at`, resumes and responds
Settles(c, at) == pc[c] = at /\ pc'[c] = "idle"

Slots == <<currentRegisterChallenge, currentLoginChallenge>>

\* ------------------------------------------------------------------ claims

\* C1: while no /verify-register has succeeded, every /verify-login call is
\* answered 400 {status: "failed", error: "No registered user"} in the step
\* in which it arrives, without a pending engine call, and with both
\* challenge slots and the credential store unchanged.
C1_LoginBeforeRegistration ==
  [][\A c \in Clients :
       (lastAttested = <<>> /\ Starts(c, "/verify-login")) =>
         /\ response'[c] = FailedResponse("No registered user")
         /\ response'[c].code = 400
         /\ pc'[c] = "idle"
         /\ call'[c] = NoCall
         /\ UNCHANGED <<Slots, users>>]_vars

\* a login was refused as unregistered after challenges were issued and a
\* registration attempt had failed
C1_Witness ==
  /\ lastAttested = <<>>
  /\ currentRegisterChallenge # Null
  /\ currentLoginChallenge # Null
  /\ \E c, d \in Clients :
       /\ route[c] = "/verify-login"
       /\ response[c] = FailedResponse("No registered user")
       /\ route[d] = "/verify-register"
       /\ response[d].status = "failed"

\* C2: when the engine rejects a /verify-register call (the step is the
\* handler's catch path for some payload) the response is 400 with status
\* "failed" and the credential store is exactly what it was (absent stays
\* absent, a stored record is kept unmodified).
C2_RejectedRegistrationKeepsStore ==
  [][\A c \in Clients :
       Settles(c, "attestationResult") =>
         \/ /\ response'[c].code = 400
            /\ response'[c].status = "failed"
            /\ users' = users
         \/ \A body \in Bodies : ~VerifyRegisterThrow(c, body)]_vars

\* a registration was rejected for its origin while a record was stored
C2_Witness ==
  /\ MapHas(users, DemoUser)
  /\ \E c \in Clients :
       /\ route[c] = "/verify-register"
       /\ response[c] = FailedResponse("Error: origin mismatch")

\* C3: an issued registration challenge differs from the one it overwrites,
\* the slot holds the one just issued (the one in the response), and a
\* registration check built from the slot accepts no payload bound to any
\* other challenge, in particular none bound to the overwritten one.
C3_SecondChallengeWins ==
  [][\A c \in Clients :
       (Settles(c, "attestationOptions") /\ response'[c].code = 200) =>
         /\ currentRegisterChallenge' # currentRegisterChallenge
         /\ currentRegisterChallenge' = FromBase64(response'[c].challenge)
         /\ \A body \in Bodies :
              AttestationError(body, AttestationExpectations') = ""
                => body.challenge = FromBase64(response'[c].challenge)
         /\ \A body \in Bodies :
              body.challenge = currentRegisterChallenge
                => AttestationError(body, AttestationExpectations') # ""]_vars

\* two registration challenges were issued in succession (no login challenge
\* at all), a payload was refused for its challenge and one was accepted
C3_Witness ==
  /\ currentRegisterChallenge = 2
  /\ currentLoginChallenge = Null
  /\ rng = 3
  /\ \E c, d \in Clients :
       /\ route[c] = "/verify-register"
       /\ response[c] = FailedResponse("Error: challenge mismatch")
       /\ route[d] = "/verify-register"
       /\ response[d] = OkResponse

\* C4: a verification call is checked against its own flow's slot as read
\* when the call is made and against the configured origin; a verification
\* is answered either 400 failed or {status: "ok"}, and no payload carrying
\* another challenge or another origin can be the one answered ok.
C4_ChallengeOriginBinding ==
  [][\A c \in Clients :
       /\ Starts(c, "/verify-register") =>
            /\ call'[c].expected.challenge = currentRegisterChallenge
            /\ call'[c].expected.origin = ExpectedOrigin
       /\ (Starts(c, "/verify-login") /\ pc'[c] # "idle") =>
            /\ call'[c].expected.challenge = currentLoginChallenge
            /\ call'[c].expected.origin = ExpectedOrigin
       /\ (Settles(c, "attestationResult") \/ Settles(c, "assertionResult")) =>
            \/ /\ response'[c].code = 400
               /\ response'[c].status = "failed"
            \/ /\ response'[c] = OkResponse
               /\ \A body \in Bodies :
                    (\/ body.challenge # call[c].expected.challenge
                     \/ body.origin # ExpectedOrigin) =>
                      /\ ~VerifyRegisterReturn(c, body)
                      /\ ~VerifyLoginReturn(c, body)]_vars

\* both flows have answered ok, and a login was refused for its origin
C4_Witness ==
  \E c, d \in Clients :
    /\ route[c] = "/verify-login"
    /\ response[c] = OkResponse
    /\ route[d] = "/verify-login"
    /\ response[d] = FailedResponse("Error: origin mismatch")
    /\ lastAttested # <<>>

\* a well-formed payload for the configured origin bound to challenge ch
BoundTo(body, ch) ==
  body.wellFormed /\ body.origin = ExpectedOrigin /\ body.challenge = ch

\* C5: (scenario A) a client that was issued a registration challenge and
\* posts a valid attestation for it and the configured origin, the slot
\* still holding that challenge, is answered {status: "ok"} and the
\* attested record is stored; a client that was then issued a login
\* challenge and posts a valid assertion for it, the origin and the stored
\* record is answered {status: "ok"} too.
C5_EndToEndSuccess ==
  [][\A c \in Clients :
       /\ (/\ Settles(c, "attestationResult")
           /\ call[c].held # Null
           /\ currentRegisterChallenge = call[c].held) =>
            \A body \in Bodies :
              BoundTo(body, call[c].held) =>
                /\ ~VerifyRegisterThrow(c, body)
                /\ VerifyRegisterReturn(c, body) =>
                     /\ response'[c] = OkResponse
                     /\ MapHas(users', DemoUser)
                     /\ users'[DemoUser] = AuthnrData(body)
       /\ (/\ Settles(c, "assertionResult")
           /\ call[c].held # Null
           /\ currentLoginChallenge = call[c].held
           /\ MapHas(users, DemoUser)
           /\ call[c].expected.publicKey = users[DemoUser].credentialPublicKey
           /\ call[c].expected.prevCounter = users[DemoUser].counter) =>
            \A body \in Bodies :
              (/\ BoundTo(body, call[c].held)
               /\ body.key = users[DemoUser].credentialPublicKey
               /\ CounterOk(body.counter, users[DemoUser].counter)) =>
                /\ ~VerifyLoginThrow(c, body)
                /\ VerifyLoginReturn(c, body) => response'[c] = OkResponse]_vars

\* one client alone went through registration and login: exactly one
\* challenge of each flow was issued, a record is stored, the login is ok
C5_Witness ==
  \E c, d \in Clients :
    /\ c # d
    /\ route[d] = "none"
    /\ currentRegisterChallenge = 1
    /\ currentLoginChallenge = 2
    /\ MapHas(users, DemoUser)
    /\ route[c] = "/verify-login"
    /\ response[c] = OkResponse

\* c's handler sends its response in this step
Responds(c) == response'[c] # response[c] /\ response'[c] # NoResponse

\* C6: a handler writes a store only in the step in which it sends a
\* success response: a step that sends no response or a failure (400, 500)
\* response leaves both slots and the credential store unchanged (so a
\* challenge issuance that ends in 500 keeps its slot), and a success
\* response comes with exactly the update of its operation.
C6_Atomic ==
  [][\A c \in Clients :
       /\ (pc[c] # pc'[c] /\ ~Responds(c)) => UNCHANGED <<Slots, users>>
       /\ Responds(c) =>
            /\ response'[c].code \in {200, 400, 500}
            /\ response'[c].code # 200 => UNCHANGED <<Slots, users>>
            /\ (response'[c].code = 500) =
                 (route'[c] \in {"/register-challenge", "/login-challenge"}
                  /\ response'[c].code # 200)
            /\ (response'[c].code = 200 /\ route'[c] = "/register-challenge") =>
                 /\ currentRegisterChallenge' = FromBase64(response'[c].challenge)
                 /\ currentRegisterChallenge' # currentRegisterChallenge
                 /\ UNCHANGED <<currentLoginChallenge, users>>
            /\ (response'[c].code = 200 /\ route'[c] = "/login-challenge") =>
                 /\ currentLoginChallenge' = FromBase64(response'[c].challenge)
                 /\ currentLoginChallenge' # currentLoginChallenge
                 /\ UNCHANGED <<currentRegisterChallenge, users>>
            /\ (response'[c].code = 200 /\ route'[c] = "/verify-register") =>
                 /\ MapHas(users', DemoUser)
                 /\ lastAttested' = <<users'[DemoUser]>>
                 /\ UNCHANGED Slots
            /\ (response'[c].code = 200 /\ route'[c] = "/verify-login") =>
                 UNCHANGED <<Slots, users>>]_vars

\* an issuance ended in 500 while its slot held an earlier challenge
C6_Witness ==
  \E c \in Clients :
    /\ route[c] = "/login-challenge"
    /\ response[c] = ServerErrorResponse(OptionsError)
    /\ currentLoginChallenge # Null

\* C7: the credential store holds at most one record, under the fixed demo
\* user; it is empty exactly as long as no /verify-register has succeeded,
\* and otherwise holds the record the engine returned for the latest
\* successful /verify-register.
C7_SingleLatestRecord ==
  /\ DOMAIN users \subseteq {DemoUser}
  /\ Cardinality(DOMAIN users) <= 1
  /\ (lastAttested = <<>>) = (users = EmptyMap)
  /\ lastAttested # <<>> => users = (DemoUser :> lastAttested[1])

\* a record was overwritten: the store holds key k2 while a login that
\* started earlier is still being checked against key k1
C7_Witness ==
  /\ MapHas(users, DemoUser)
  /\ users[DemoUser].credentialPublicKey = "k2"
  /\ \E c \in Clients :
       /\ pc[c] = "assertionResult"
       /\ call[c].expected.publicKey = "k1"

\* C8: no step of a verification handler changes a challenge slot, and a
\* payload that was just accepted against a challenge that has not been
\* re-issued (nor, for a login, the record replaced) would be accepted
\* again by a check built from the state the call leaves behind.
C8_ChallengeNotConsumed ==
  [][\A c \in Clients :
       /\ (\/ Starts(c, "/verify-register") \/ Starts(c, "/verify-login")
           \/ Settles(c, "attestationResult") \/ Settles(c, "assertionResult"))
            => UNCHANGED Slots
       /\ (/\ Settles(c, "attestationResult")
           /\ response'[c] = OkResponse
           /\ call[c].expected = AttestationExpectations) =>
            \A body \in Bodies :
              VerifyRegisterReturn(c, body) =>
                AttestationError(body, AttestationExpectations') = ""
       /\ (/\ Settles(c, "assertionResult")
           /\ response'[c] = OkResponse
           /\ call[c].expected = AssertionExpectations(users[DemoUser])) =>
            \A body \in Bodies :
              VerifyLoginReturn(c, body) =>
                /\ MapHas(users', DemoUser)
                /\ AssertionError(body, AssertionExpectations(users[DemoUser])') = ""]_vars

\* both clients were answered ok by /verify-login although only one login
\* challenge was ever issued
C8_Witness ==
  /\ currentRegisterChallenge = 1
  /\ currentLoginChallenge = 2
  /\ \A c \in Clients :
       route[c] = "/verify-login" /\ response[c] = OkResponse

\* C9: no step of /verify-login changes the credential store, and every
\* login is checked against the key and counter of the record returned by
\* the latest successful registration.
C9_LoginNeverWritesStore ==
  [][\A c \in Clients :
       (Starts(c, "/verify-login") \/ Settles(c, "assertionResult")) =>
         /\ users' = users
         /\ pc'[c] = "assertionResult" =>
              /\ lastAttested # <<>>
              /\ call'[c].expected.prevCounter = lastAttested[1].counter
              /\ call'[c].expected.publicKey = lastAttested[1].credentialPublicKey
              /\ call'[c].expected.userHandle = lastAttested[1].userHandle]_vars

\* a login succeeded and the stored record is still the attested one
C9_Witness ==
  /\ lastAttested # <<>>
  /\ MapHas(users, DemoUser)
  /\ users[DemoUser] = lastAttested[1]
  /\ users[DemoUser].counter = 0
  /\ \E c, d \in Clients :
       /\ route[c] = "/verify-login" /\ response[c] = OkResponse
       /\ route[d] = "/verify-login"
       /\ response[d] = FailedResponse("Error: signature validation failed")

\* C10: when another issuance has overwritten the slot before a client's
\* verification call, the call is checked against a challenge other than
\* the one the client was issued and no payload bound to the client's own
\* challenge is answered ok: the call fails with 400.
C10_OverwrittenChallengeFails ==
  [][\A c \in Clients :
       (/\ Settles(c, "attestationResult") \/ Settles(c, "assertionResult")
        /\ call[c].held # Null
        /\ call[c].expected.challenge # call[c].held) =>
         \A body \in Bodies :
           BoundTo(body, call[c].held) =>
             /\ ~VerifyRegisterReturn(c, body)
             /\ ~VerifyLoginReturn(c, body)
             /\ (VerifyRegisterThrow(c, body) \/ VerifyLoginThrow(c, body)) =>
                  response'[c].code = 400 /\ response'[c].status = "failed"]_vars

\* A was issued registration challenge 1, B was then issued 2, and A's
\* verification call is being checked against 2
C10_Witness ==
  /\ pc["A"] = "attestationResult"
  /\ call["A"].held = 1
  /\ call["A"].expected.challenge = 2
  /\ route["B"] = "/register-challenge"
  /\ response["B"] = RegistrationOptions(2)

\* the elements of a JSON array
Elements(seq) == {seq[i] : i \in 1..Len(seq)}

\* C11: every GET /.well-known/apple-app-site-association is answered in the
\* step in which it arrives, with status 200, content type application/json
\* and a JSON text whose webcredentials.apps lists the configured application
\* identifier; the answer is the same in every state, no engine call is
\* made, and both challenge slots and the credential store are unchanged.
C11_AssociationStateless ==
  [][\A c \in Clients :
       Starts(c, "/.well-known/apple-app-site-association") =>
         /\ response'[c].code = 200
         /\ response'[c].type = "application/json"
         /\ response'[c].text = JsonStringify(JsonParse(response'[c].text))
         /\ AppId \in Elements(JsonParse(response'[c].text).webcredentials.apps)
         /\ \A d \in Clients :
              route[d] = "/.well-known/apple-app-site-association"
                => response'[c] = response[d]
         /\ pc'[c] = "idle"
         /\ call'[c] = NoCall
         /\ UNCHANGED <<Slots, users>>]_vars

\* the document was served to both clients after a registration and with
\* a challenge of each flow outstanding
C11_Witness ==
  /\ MapHas(users, DemoUser)
  /\ currentRegisterChallenge # Null
  /\ currentLoginChallenge # Null
  /\ \A c \in Clients :
       /\ route[c] = "/.well-known/apple-app-site-association"
       /\ response[c].code = 200

\* C12: each flow has one slot holding one challenge or null; a slot changes
\* only when an issuance of its flow completes, whichever client asked for
\* it; a verification call captures its flow's slot in the step in which its
\* handler starts, the captured value stays the same while the call is
\* suspended even when the slot is overwritten, and it is the captured
\* value that an accepted payload is bound to.
C12_CheckedAgainstSlotAtStart ==
  [][/\ currentRegisterChallenge' \in Challenges \cup {Null}
     /\ currentLoginChallenge' \in Challenges \cup {Null}
     /\ currentRegisterChallenge' # currentRegisterChallenge =>
          \E d \in Clients :
            /\ Settles(d, "attestationOptions")
            /\ response'[d] = RegistrationOptions(currentRegisterChallenge')
     /\ currentLoginChallenge' # currentLoginChallenge =>
          \E d \in Clients :
            /\ Settles(d, "assertionOptions")
            /\ response'[d] = AssertionOptions(currentLoginChallenge')
     /\ \A c \in Clients :
          /\ Starts(c, "/verify-register") =>
               call'[c].expected.challenge = currentRegisterChallenge
          /\ (Starts(c, "/verify-login") /\ pc'[c] # "idle") =>
               call'[c].expected.challenge = currentLoginChallenge
          /\ (pc[c] \in {"attestationResult", "assertionResult"} /\ pc'[c] = pc[c])
               => call'[c] = call[c]
          /\ ((Settles(c, "attestationResult") \/ Settles(c, "assertionResult"))
              /\ response'[c] = OkResponse) =>
               \A body \in Bodies :
                 (VerifyRegisterReturn(c, body) \/ VerifyLoginReturn(c, body))
                   => body.challenge = call[c].expected.challenge]_vars

\* A's registration check captured challenge 1 and is still suspended while
\* B's issuance has completed and overwritten the slot with challenge 2
C12_Witness ==
  /\ pc["A"] = "attestationResult"
  /\ call["A"].expected.challenge = 1
  /\ currentRegisterChallenge = 2
  /\ route["B"] = "/register-challenge"
  /\ response["B"] = RegistrationOptions(2)

\* C13: a verification call made while its flow's slot is still null is
\* checked against null and is answered 400 failed whatever the payload:
\* /verify-register then stores nothing, and /verify-login fails although a
\* record is registered.
C13_NullChallengeNeverSucceeds ==
  [][\A c \in Clients :
       /\ (Starts(c, "/verify-register") /\ currentRegisterChallenge = Null) =>
            call'[c].expected.challenge = Null
       /\ (Starts(c, "/verify-login") /\ pc'[c] # "idle"
           /\ currentLoginChallenge = Null) =>
            call'[c].expected.challenge = Null
       /\ (Settles(c, "attestationResult") /\ call[c].expected.challenge = Null) =>
            /\ response'[c].code = 400
            /\ response'[c].status = "failed"
            /\ users' = users
       /\ (Settles(c, "assertionResult") /\ call[c].expected.challenge = Null) =>
            /\ response'[c].code = 400
            /\ response'[c].status = "failed"]_vars

\* a registration was refused for want of a challenge, and so was a login
\* made with a record stored but no login challenge ever issued
C13_Witness ==
  /\ MapHas(users, DemoUser)
  /\ currentLoginChallenge = Null
  /\ \E c, d \in Clients :
       /\ route[c] = "/verify-login"
       /\ response[c] = FailedResponse("Error: expected challenge missing")
       /\ route[d] = "/verify-register"
       /\ response[d] = FailedResponse("Error: expected challenge missing")

\* C14: no step removes the credential record, and once a /verify-register
\* has succeeded every /verify-login goes to the engine: none is answered
\* "No registered user".
C14_RegistrationPermanent ==
  [][/\ MapHas(users, DemoUser) => MapHas(users', DemoUser)
     /\ lastAttested # <<>> => lastAttested' # <<>>
     /\ \A c \in Clients :
          /\ (lastAttested # <<>> /\ Starts(c, "/verify-login")) =>
               /\ pc'[c] = "assertionResult"
               /\ response'[c] # FailedResponse("No registered user")
          /\ (lastAttested # <<>> /\ Settles(c, "assertionResult")) =>
               response'[c].error # "No registered user"]_vars

\* after a registration one login was refused by the engine and a later
\* one went to the engine again
C14_Witness ==
  /\ lastAttested # <<>>
  /\ \E c, d \in Clients :
       /\ route[c] = "/verify-login"
       /\ response[c] = FailedResponse("Error: challenge mismatch")
       /\ pc[d] = "assertionResult"

\* C15: a step of /register-challenge leaves the login slot and the
\* credential store unchanged, a step of /login-challenge leaves the
\* registration slot and the store unchanged, and only an issuance of its
\* own flow changes a slot; so every payload the other flow's check (or a
\* login against the stored record) would accept before the issuance is
\* still accepted after it.
C15_FlowsDisjoint ==
  [][\A c \in Clients :
       /\ (Starts(c, "/register-challenge") \/ Settles(c, "attestationOptions")) =>
            /\ UNCHANGED <<currentLoginChallenge, users>>
            /\ MapHas(users, DemoUser) =>
                 \A body \in Bodies :
                   AssertionError(body, AssertionExpectations(users[DemoUser])) = ""
                     => AssertionError(body, AssertionExpectations(users[DemoUser])') = ""
       /\ (Starts(c, "/login-challenge") \/ Settles(c, "assertionOptions")) =>
            /\ UNCHANGED <<currentRegisterChallenge, users>>
            /\ \A body \in Bodies :
                 AttestationError(body, AttestationExpectations) = ""
                   => AttestationError(body, AttestationExpectations') = ""
       /\ Starts(c, "/register-challenge") => UNCHANGED currentRegisterChallenge
       /\ Starts(c, "/login-challenge") => UNCHANGED currentLoginChallenge]_vars

\* a login challenge was issued after a registration: the registration
\* slot still holds challenge 1 and the record is still stored
C15_Witness ==
  /\ currentRegisterChallenge = 1
  /\ currentLoginChallenge = 2
  /\ MapHas(users, DemoUser)
  /\ \E c, d \in Clients :
       /\ response[c] = AssertionOptions(2)
       /\ route[d] = "/verify-register"
       /\ response[d] = OkResponse

\* C16: a login call captures the key, counter and user handle of the record
\* stored in the step in which its handler starts; the captured values stay
\* the same while the call is suspended, also when a registration replaces
\* the record, and an accepted assertion is one signed by the captured key
\* with a counter valid against the captured counter.
C16_LoginUsesRecordAtStart ==
  [][\A c \in Clients :
       /\ (Starts(c, "/verify-login") /\ pc'[c] # "idle") =>
            /\ MapHas(users, DemoUser)
            /\ call'[c].expected.publicKey = users[DemoUser].credentialPublicKey
            /\ call'[c].expected.prevCounter = users[DemoUser].counter
            /\ call'[c].expected.userHandle = users[DemoUser].userHandle
       /\ (pc[c] = "assertionResult" /\ pc'[c] = "assertionResult") =>
            call'[c].expected = call[c].expected
       /\ (Settles(c, "assertionResult") /\ response'[c] = OkResponse) =>
            \A body \in Bodies :
              VerifyLoginReturn(c, body) =>
                /\ body.key = call[c].expected.publicKey
                /\ CounterOk(body.counter, call[c].expected.prevCounter)]_vars

\* A's login is suspended, checked against a live login challenge and an
\* earlier record, while B's registration has succeeded and replaced the
\* record with one of another key
C16_Witness ==
  /\ pc["A"] = "assertionResult"
  /\ call["A"].expected.challenge # Null
  /\ MapHas(users, DemoUser)
  /\ call["A"].expected.publicKey # users[DemoUser].credentialPublicKey
  /\ route["B"] = "/verify-register"
  /\ response["B"] = OkResponse

\* the four challenge and verification endpoints
Endpoints ==
  {"/register-challenge", "/login-challenge", "/verify-register", "/verify-login"}

\* C17: a handler never sends a second response; a request to one of the
\* four endpoints whose handler has finished has been sent exactly one
\* response and a suspended one none yet; and, every engine call settling
\* eventually, every suspended handler eventually finishes with its one
\* response sent.
C17_ExactlyOneResponse ==
  /\ [](\A c \in Clients :
          /\ sent[c] <= 1
          /\ (route[c] \in Endpoints /\ pc[c] = "idle") =>
               (sent[c] = 1 /\ response[c] # NoResponse)
          /\ pc[c] # "idle" => (sent[c] = 0 /\ response[c] = NoResponse))
  /\ \A c \in Clients :
       (pc[c] # "idle") ~> (pc[c] = "idle" /\ sent[c] = 1)

\* after a successful registration, a login refused by the engine and a
\* challenge issuance that failed were each sent exactly one response
C17_Witness ==
  \E c, d \in Clients :
    /\ route[c] = "/verify-login"
    /\ response[c] = FailedResponse("Error: origin mismatch")
    /\ sent[c] = 1
    /\ route[d] = "/login-challenge"
    /\ response[d] = ServerErrorResponse(OptionsError)
    /\ sent[d] = 1

====
